---- MODULE Spec2Model ----
(***************************************************************************)
(* A model of demiurgos, a template-package manager: the source locator    *)
(* and the installed store (install path), the package loader, the config  *)
(* resolver and the render orchestrator (generate path).                   *)
(*                                                                         *)
(* File contents are byte strings, written here as string tokens; what a   *)
(* token parses to (YAML manifest, JSON document) is given by tables.      *)
(* A directory tree is a set of <<relative path, content>> pairs.          *)
(***************************************************************************)
EXTENDS Integers, Sequences, FiniteSets, TLC

VARIABLES
    store,        \* the installed store: <<name, version>> -> [exists, tree]
    sourceEnv,    \* what the environment holds for the source identifiers
    installLog,   \* history: one record per install performed
    pkgDir,       \* the package directory on disk (--generator-path)
    loadLog,      \* history: the result of each load of pkgDir
    cwdDir,       \* the directory the empty path resolves to
    dest,         \* the destination directory: [kind, tree]
    cli,          \* the arguments of generate: selectors, config, output
    genOut,       \* the outcome of generate
    rendered      \* the renderer invocations, in order

vars == <<store, sourceEnv, installLog, pkgDir, loadLog, cwdDir, dest, cli,
          genOut, rendered>>

installVars == <<store, sourceEnv, installLog>>
loadVars == <<pkgDir, loadLog>>
generateVars == <<cwdDir, dest, cli, genOut, rendered>>

(***************************************************************************)
(* Bounds of the model.                                                    *)
(***************************************************************************)
MaxInstalls == 2
MaxLoads == 2

(***************************************************************************)
(* Generic helpers.                                                        *)
(***************************************************************************)
Paths(tree) == {e[1] : e \in tree}

\* An async call whose future is dropped without being polled never runs:
\* the state stays as it was before the call.
Unpolled(before, after) == before

(***************************************************************************)
(* Strings the code tests by prefix and suffix are written as sequences of *)
(* chunks whose concatenation is the string.                               *)
(***************************************************************************)
starts_with(s, prefix) == Len(s) >= 1 /\ s[1] = prefix

ends_with(s, suffix) == Len(s) >= 1 /\ s[Len(s)] = suffix

GithubPrefix == "https://github.com"

Uris ==
    { <<"/home/u/pkg">>,
      <<"/home/u/pkg", ".zip">>,
      <<"https://github.com", "/o/gen">>,
      <<"https://github.com", "/o/gen/archive/main", ".zip">>,
      <<"https://github.com", "/o/gen/archive/main", ".tar.gz">>,
      <<"https://example.com", "/gen", ".zip">>,
      <<"https://example.com", "/gen", ".tar.gz">>,
      <<"https://example.com", "/gen", ".tar">>,
      <<"git@gitlab.com:o/gen.git">> }

(***************************************************************************)
(* Manifest contents and their YAML meaning.                               *)
(***************************************************************************)
ManifestFile == "Generator.yaml"

MWeb1 == "apiVersion: v1, name: web, version: 1.0"
MWeb2 == "apiVersion: v1, name: web, version: 2.0"
MApi1 == "apiVersion: v1, name: api, version: 1.0"
MNoVersion == "apiVersion: v1, name: web"
MGarbage == "name: [web"

\* serde_yaml's reading of a manifest content as a mapping of fields.
YamlFields(content) ==
    CASE content = MWeb1 ->
           [wellformed |-> TRUE,
            doc |-> [apiVersion |-> "v1", name |-> "web", version |-> "1.0"]]
      [] content = MWeb2 ->
           [wellformed |-> TRUE,
            doc |-> [apiVersion |-> "v1", name |-> "web", version |-> "2.0"]]
      [] content = MApi1 ->
           [wellformed |-> TRUE,
            doc |-> [apiVersion |-> "v1", name |-> "api", version |-> "1.0"]]
      [] content = MNoVersion ->
           [wellformed |-> TRUE,
            doc |-> [apiVersion |-> "v1", name |-> "web", version |-> ""]]
      [] OTHER ->
           [wellformed |-> FALSE,
            doc |-> [apiVersion |-> "", name |-> "", version |-> ""]]

\* Which fields the content actually carries.
YamlKeys(content) ==
    CASE content \in {MWeb1, MWeb2, MApi1} -> {"apiVersion", "name", "version"}
      [] content = MNoVersion -> {"apiVersion", "name"}
      [] OTHER -> {}

\* serde_yaml::from_str::<GeneratorYaml>: apiVersion, name and version are
\* required strings, every other field is optional.
GeneratorYaml(content) ==
    LET y == YamlFields(content)
    IN  IF y.wellformed /\ {"apiVersion", "name", "version"} \subseteq YamlKeys(content)
        THEN [ok |-> TRUE, name |-> y.doc.name, version |-> y.doc.version]
        ELSE [ok |-> FALSE, name |-> "", version |-> ""]

(***************************************************************************)
(* Directory trees used as staged packages and store entries.              *)
(***************************************************************************)
EmptyTree == {}

TreeOf(manifest, tpl) ==
    {<<ManifestFile, manifest>>, <<"values.yaml", "{}">>, <<"templates/index.tpl", tpl>>}

SourceTrees ==
    { TreeOf(MWeb1, "t1"),
      TreeOf(MWeb1, "t2") \cup {<<"files/logo.png", "png">>},
      TreeOf(MWeb2, "t1"),
      TreeOf(MApi1, "t1"),
      TreeOf(MNoVersion, "t1"),
      TreeOf(MGarbage, "t1"),
      {<<"README.md", "readme">>} }

Names == {"web", "api"}
Versions == {"1.0", "2.0"}
Keys == Names \X Versions

NoEntry == [exists |-> FALSE, tree |-> EmptyTree]
Entry(tree) == [exists |-> TRUE, tree |-> tree]

\* What the environment holds for a source identifier: whether it names an
\* existing local directory, the tree found there (or offered by the remote
\* repository), and whether a clone of it succeeds.
SourceEnvs == [localDir : BOOLEAN, content : SourceTrees, remoteOk : BOOLEAN]

(***************************************************************************)
(* Source locator.                                                         *)
(***************************************************************************)
IsArchive(uri) == ends_with(uri, ".zip") \/ ends_with(uri, ".tar.gz")

\* clone_git_repo: Repository::clone into the temporary directory.
clone_git_repo(uri, env) ==
    IF env.remoteOk
    THEN [status |-> "ok", staged |-> env.content]
    ELSE [status |-> "err", staged |-> EmptyTree]

\* download_and_extract, had it run: the archive is fetched and unpacked
\* into the temporary directory.
download_and_extract(uri, env) ==
    [temp |-> TRUE, staged |-> env.content, transfers |-> <<"download", "extract">>]

\* prepare_generator_source. download_and_extract is an async fn that is
\* called and never awaited, so its future is dropped unpolled.
prepare_generator_source(uri, env) ==
    IF env.localDir
    THEN [status |-> "ok", temp |-> FALSE, staged |-> env.content,
          transfers |-> <<>>, error |-> ""]
    ELSE LET fresh == [temp |-> TRUE, staged |-> EmptyTree, transfers |-> <<>>]
             dl == Unpolled(fresh, download_and_extract(uri, env))
         IN  IF starts_with(uri, GithubPrefix)
             THEN IF IsArchive(uri)
                  THEN [status |-> "ok", temp |-> dl.temp, staged |-> dl.staged,
                        transfers |-> dl.transfers, error |-> ""]
                  ELSE LET c == clone_git_repo(uri, env)
                       IN  [status |-> c.status, temp |-> TRUE, staged |-> c.staged,
                            transfers |-> <<"clone">>,
                            error |-> IF c.status = "ok" THEN "" ELSE "clone failed"]
             ELSE IF IsArchive(uri)
                  THEN [status |-> "ok", temp |-> dl.temp, staged |-> dl.staged,
                        transfers |-> dl.transfers, error |-> ""]
                  ELSE [status |-> "err", temp |-> TRUE, staged |-> EmptyTree,
                        transfers |-> <<>>, error |-> "Unsupported URI format"]

(***************************************************************************)
(* Installed store.                                                        *)
(***************************************************************************)
HasFile(tree, path) == path \in Paths(tree)

ContentAt(tree, path) == (CHOOSE e \in tree : e[1] = path)[2]

\* tokio::fs::create_dir_all(generator_dir), had it run.
create_dir_all(st, key) ==
    IF st[key].exists THEN st ELSE [st EXCEPT ![key] = Entry(EmptyTree)]

\* A move_to_repo_root that copies the staged tree over whatever the store
\* holds at root/name/version.
move_to_repo_root_overwrite(temp_dir, st) ==
    IF ~HasFile(temp_dir, ManifestFile)
    THEN [status |-> "panic", store |-> st]
    ELSE LET generator == GeneratorYaml(ContentAt(temp_dir, ManifestFile))
             key == <<generator.name, generator.version>>
         IN  IF ~generator.ok
             THEN [status |-> "err", store |-> st]
             ELSE [status |-> "ok", store |-> [st EXCEPT ![key] = Entry(temp_dir)]]

\* move_to_repo_root: reads the manifest of the staged directory and
\* computes root/name/version. The create_dir_all future is dropped without
\* an await, and the copy loop is commented out in the source.
move_to_repo_root(temp_dir, st) ==
    IF ~HasFile(temp_dir, ManifestFile)
    THEN [status |-> "panic", store |-> st]
    ELSE LET generator == GeneratorYaml(ContentAt(temp_dir, ManifestFile))
             key == <<generator.name, generator.version>>
         IN  IF ~generator.ok
             THEN [status |-> "err", store |-> st]
             ELSE [status |-> "ok",
                   store |-> IF ~st[key].exists
                             THEN Unpolled(st, create_dir_all(st, key))
                             ELSE st]

\* install_template: both steps are unwrapped, so an Err of either panics.
install_template(uri, env, st) ==
    LET src == prepare_generator_source(uri, env)
    IN  IF src.status # "ok"
        THEN [status |-> "panic", store |-> st, source |-> src]
        ELSE LET moved == move_to_repo_root(src.staged, st)
             IN  [status |-> IF moved.status = "ok" THEN "ok" ELSE "panic",
                  store |-> moved.store, source |-> src]

(***************************************************************************)
(* Package directories as the loader sees them.                            *)
(*                                                                         *)
(* A file is [present, content]. A file name is a sequence of chunks, so   *)
(* that a leading underscore and the extension can be read off it.         *)
(***************************************************************************)
NoFile == [present |-> FALSE, content |-> ""]
File(content) == [present |-> TRUE, content |-> content]

NoDir == [kind |-> "missing", entries |-> {}]
NotADir == [kind |-> "file", entries |-> {}]
Dir(entries) == [kind |-> "dir", entries |-> entries]

IndexTpl == <<"index", ".", "tpl">>
PageTpl == <<"page", ".", "tpl">>
MacrosTpl == <<"_", "macros", ".", "tpl">>
DraftTxt == <<"_", "draft", ".", "txt">>
NotesNoExt == <<"_", "notes">>
ReadmeNoExt == <<"README">>
PartialsDir == <<"partials">>

\* Entries of templates/ that are directories; every other entry is a file.
DirNames == {PartialsDir}

BrokenTpl == <<"broken", ".", "tpl">>

\* The names in ascending byte order ('R' < '_' < 'b' < 'i' < 'p'; "page" <
\* "partials"): the order of String's Ord on the paths, which share their
\* directory prefix.
ByteOrder ==
    <<ReadmeNoExt, DraftTxt, MacrosTpl, NotesNoExt, BrokenTpl, IndexTpl, PageTpl,
      PartialsDir>>

Rank(name) == CHOOSE i \in 1..Len(ByteOrder) : ByteOrder[i] = name

\* Relative paths under files/, in the order glob yields them (alphabetical).
FilesOrder == <<"a.css", "css/site.css", "logo.png", "z.png">>

FileRank(path) == CHOOSE i \in 1..Len(FilesOrder) : FilesOrder[i] = path

\* All the orders in which read_dir may enumerate a set of entries.
Enumerations(S) ==
    {q \in [1..Cardinality(S) -> S] : \A i, j \in DOMAIN q : i # j => q[i] # q[j]}

RECURSIVE SortedBy(_, _)
\* The sequence of the elements of S in ascending rank; rank is a function.
SortedBy(S, rank) ==
    IF S = {} THEN <<>>
    ELSE LET m == CHOOSE x \in S : \A y \in S : rank[x] <= rank[y]
         IN  <<m>> \o SortedBy(S \ {m}, rank)

(***************************************************************************)
(* Package loader.                                                         *)
(***************************************************************************)
ValuesEmpty == "{}"
ValuesPort == "port: 80"
ValuesGarbage == "port: [80"

\* serde_yaml::from_str::<serde_yaml::Value> on the contents of values.yaml.
YamlValue(content) ==
    CASE content = ValuesEmpty -> [ok |-> TRUE, value |-> {}]
      [] content = ValuesPort -> [ok |-> TRUE, value |-> {<<"port", "80">>}]
      [] OTHER -> [ok |-> FALSE, value |-> {}]

\* read_yaml_file for Generator.yaml: read_to_string, then deserialize.
read_yaml_file_manifest(file) ==
    IF ~file.present
    THEN [status |-> "err", kind |-> "NotFound", name |-> "", version |-> ""]
    ELSE LET g == GeneratorYaml(file.content)
         IN  IF g.ok
             THEN [status |-> "ok", kind |-> "", name |-> g.name, version |-> g.version]
             ELSE [status |-> "err", kind |-> "InvalidData", name |-> "", version |-> ""]

\* read_yaml_file for values.yaml: the same function, so a missing file is
\* an error here too.
read_yaml_file_values(file) ==
    IF ~file.present
    THEN [status |-> "err", kind |-> "NotFound", value |-> {}]
    ELSE LET y == YamlValue(file.content)
         IN  IF y.ok
             THEN [status |-> "ok", kind |-> "", value |-> y.value]
             ELSE [status |-> "err", kind |-> "InvalidData", value |-> {}]

\* read_optional_file_as_string: None when the file cannot be read.
read_optional_file_as_string(file) ==
    [some |-> file.present, text |-> IF file.present THEN file.content ELSE ""]

SchemaEmpty == "{}"

\* read_optional_json_file: None when the file cannot be read or is not JSON.
read_optional_json_file(file) ==
    IF file.present /\ file.content = SchemaEmpty
    THEN [some |-> TRUE, text |-> file.content]
    ELSE [some |-> FALSE, text |-> ""]

\* read_optional_directory: glob of files/**/*, keeping the entries that are
\* files (a symlink to a file is one), in glob's alphabetical order; None
\* when the directory is missing, not a directory, or holds no file.
read_optional_directory(d) ==
    IF d.kind # "dir" \/ d.entries = {}
    THEN [some |-> FALSE, list |-> <<>>]
    ELSE [some |-> TRUE,
          list |-> SortedBy({e.path : e \in d.entries},
                            [p \in {e.path : e \in d.entries} |-> FileRank(p)])]

\* read_required_directory: every entry of templates/ (files and
\* directories), in the order read_dir enumerates them. The set of the
\* possible results.
read_required_directory(d) ==
    IF d.kind # "dir"
    THEN {[status |-> "err", kind |-> "NotFound", list |-> <<>>]}
    ELSE {[status |-> "ok", kind |-> "", list |-> q] : q \in Enumerations(d.entries)}

NoGenerator ==
    [base_path |-> "", name |-> "", version |-> "", license |-> [some |-> FALSE, text |-> ""],
     readme |-> [some |-> FALSE, text |-> ""], values |-> {},
     schema |-> [some |-> FALSE, text |-> ""],
     files |-> [some |-> FALSE, list |-> <<>>], templates |-> <<>>,
     dependencies |-> [some |-> FALSE, list |-> <<>>]]

LoadErr(kind) == [status |-> "err", kind |-> kind, generator |-> NoGenerator]

RECURSIVE from_directory(_)
RECURSIVE DependencyLists(_)

RECURSIVE DependencyLists_stopAtFailure(_)
\* A filter_map that ends at the first entry whose load fails (map_while).
DependencyLists_stopAtFailure(q) ==
    IF q = <<>> THEN {<<>>}
    ELSE LET heads == from_directory(Head(q))
             tails == DependencyLists_stopAtFailure(Tail(q))
         IN  {IF h.status = "ok" THEN <<h.generator>> \o t ELSE <<>> :
                h \in heads, t \in tails}

\* The dependency lists a given enumeration of dependencies/ can yield: each
\* entry is loaded by from_directory and dropped when its load fails.
DependencyLists(q) ==
    IF q = <<>> THEN {<<>>}
    ELSE LET heads == from_directory(Head(q))
             tails == DependencyLists(Tail(q))
         IN  {IF h.status = "ok" THEN <<h.generator>> \o t ELSE t :
                h \in heads, t \in tails}

\* read_optional_dependencies: the set of the possible results.
read_optional_dependencies(d) ==
    IF d.kind # "dir"
    THEN {[some |-> FALSE, list |-> <<>>]}
    ELSE {[some |-> TRUE, list |-> l] :
            l \in UNION {DependencyLists(q) : q \in Enumerations(d.entries)}}

\* Generator::from_directory: the set of the possible results of loading
\* directory dir (one per enumeration order of its directories).
from_directory(dir) ==
    LET generator_yaml == read_yaml_file_manifest(dir.manifest)
        values == read_yaml_file_values(dir.values)
    IN  IF generator_yaml.status # "ok" THEN {LoadErr(generator_yaml.kind)}
        ELSE IF values.status # "ok" THEN {LoadErr(values.kind)}
        ELSE LET tpls == read_required_directory(dir.templates)
                 deps == read_optional_dependencies(dir.dependencies)
             IN  {IF t.status # "ok" THEN LoadErr(t.kind)
                  ELSE [status |-> "ok", kind |-> "",
                        generator |->
                          [base_path |-> dir.path,
                           name |-> generator_yaml.name,
                           version |-> generator_yaml.version,
                           license |-> read_optional_file_as_string(dir.license),
                           readme |-> read_optional_file_as_string(dir.readme),
                           values |-> values.value,
                           schema |-> read_optional_json_file(dir.schema),
                           files |-> read_optional_directory(dir.files),
                           templates |-> t.list,
                           dependencies |-> dp]] :
                    t \in tpls, dp \in deps}

(***************************************************************************)
(* JSON documents (serde_json::Value). Every value is [t, s, o]: its type, *)
(* its text when a scalar, its members (key -> value) when an object.      *)
(***************************************************************************)
NoMembers == [k \in {} |-> 0]

JNull == [t |-> "null", s |-> "", o |-> NoMembers]
JStr(str) == [t |-> "string", s |-> str, o |-> NoMembers]
JNum(digits) == [t |-> "number", s |-> digits, o |-> NoMembers]
JObj(members) == [t |-> "object", s |-> "", o |-> members]

IsObject(v) == v.t = "object"
HasKey(v, k) == IsObject(v) /\ k \in DOMAIN v.o

\* A JSON file on disk: whether it exists, whether serde_json can parse
\* it, and the document it parses to.
NoJsonFile == [present |-> FALSE, valid |-> FALSE, json |-> JNull]
BadJsonFile == [present |-> TRUE, valid |-> FALSE, json |-> JNull]
JsonFile(doc) == [present |-> TRUE, valid |-> TRUE, json |-> doc]

\* path_to_json: read_to_string, then serde_json::from_str.
path_to_json(file) ==
    IF ~file.present THEN [ok |-> FALSE, error |-> "invalid config file path", json |-> JNull]
    ELSE IF ~file.valid THEN [ok |-> FALSE, error |-> "invalid JSON", json |-> JNull]
    ELSE [ok |-> TRUE, error |-> "", json |-> file.json]

Ref(target) == JObj("$ref" :> JStr(target))

\* The files beside the config file that references may name.
RefNames == {"b.json", "nested.json", "of.json", "bad.json", "missing.json"}

RefFile(name) ==
    CASE name = "b.json" -> JsonFile(JObj("x" :> JNum("1")))
      [] name = "nested.json" -> JsonFile(Ref("b.json"))
      [] name = "of.json" -> JsonFile(JObj("outputFolder" :> JStr("/evil")))
      [] name = "bad.json" -> BadJsonFile
      [] OTHER -> NoJsonFile

\* The keys of the entities mapping in the order serde_json's map iterates
\* them.
EntityKeys == <<"a", "b">>

\* The reference test without its len() == 1 conjunct.
IsReference_anyLen(object) ==
    /\ "$ref" \in DOMAIN object
    /\ object["$ref"].t = "string"

\* An object that dereference_config takes for a reference:
\* contains_key("$ref") && get("$ref").is_string() && len() == 1.
IsReference(object) ==
    /\ "$ref" \in DOMAIN object
    /\ object["$ref"].t = "string"
    /\ Cardinality(DOMAIN object) = 1

RECURSIVE deref_values(_, _)
\* The for_each over entities.values_mut(): keys are the keys still to
\* visit. elem.as_object_mut().unwrap() panics on a value that is no
\* object, and path_to_json(..).expect(..) on an existing file that does
\* not load; a file that does not exist is logged and the value kept.
deref_values(keys, entities) ==
    IF keys = <<>> THEN [status |-> "ok", entities |-> entities]
    ELSE LET k == Head(keys)
         IN  IF k \notin DOMAIN entities THEN deref_values(Tail(keys), entities)
             ELSE LET elem == entities[k]
                  IN  IF ~IsObject(elem)
                      THEN [status |-> "panic", entities |-> entities]
                      ELSE IF IsReference(elem.o)
                      THEN LET file == RefFile(elem.o["$ref"].s)
                           IN  IF file.present
                               THEN LET loaded == path_to_json(file)
                                    IN  IF loaded.ok
                                        THEN deref_values(Tail(keys),
                                               [entities EXCEPT ![k] = loaded.json])
                                        ELSE [status |-> "panic", entities |-> entities]
                               ELSE deref_values(Tail(keys), entities)
                      ELSE deref_values(Tail(keys), entities)

\* dereference_config: config.get_mut("entities").unwrap().as_object_mut()
\* .unwrap() panics unless config has an object under "entities".
dereference_config(config) ==
    IF ~HasKey(config, "entities") \/ ~IsObject(config.o["entities"])
    THEN [status |-> "panic", config |-> config]
    ELSE LET r == deref_values(EntityKeys, config.o["entities"].o)
         IN  [status |-> r.status,
              config |-> JObj([config.o EXCEPT !["entities"] = JObj(r.entities)])]

\* An insert that keeps the value of a key that is already there.
Insert_ifAbsent(members, key, value) ==
    [k \in DOMAIN members \cup {key} |->
        IF k \in DOMAIN members THEN members[k] ELSE value]

\* Map::insert of a key: the value is set whether or not the key was there.
Insert(members, key, value) ==
    [k \in DOMAIN members \cup {key} |-> IF k = key THEN value ELSE members[k]]

\* main, Commands::Generate, the context: the config file is loaded and
\* dereferenced (or {} without --config-filepath), then outputFolder is
\* inserted into the top-level object.
BuildContext(configGiven, configFile, output) ==
    LET loaded == path_to_json(configFile)
        deref == dereference_config(loaded.json)
        ctx == IF configGiven THEN deref.config ELSE JObj(NoMembers)
    IN  IF configGiven /\ ~loaded.ok
        THEN [status |-> "panic", stage |-> "config", ctx |-> JNull]
        ELSE IF configGiven /\ deref.status # "ok"
        THEN [status |-> "panic", stage |-> "dereference", ctx |-> deref.config]
        ELSE [status |-> "ok", stage |-> "",
              ctx |-> IF IsObject(ctx)
                      THEN JObj(Insert(ctx.o, "outputFolder", JStr(output)))
                      ELSE ctx]

(***************************************************************************)
(* Render orchestrator.                                                    *)
(***************************************************************************)
NoDest == [kind |-> "missing", tree |-> EmptyTree]
DestFile == [kind |-> "file", tree |-> EmptyTree]
DestDir(tree) == [kind |-> "dir", tree |-> tree]

\* fs::copy onto a path: the file there, if any, is replaced.
Write(tree, path, content) ==
    {e \in tree : e[1] # path} \cup {<<path, content>>}

\* The directory a relative path lies in ("" for the root itself).
Parent(rel) == IF rel = "css/site.css" THEN "css" ELSE ""

FileEntry(dir, path) == CHOOSE e \in dir.files.entries : e.path = path

\* construct_destination_path: base_path and file are canonicalized
\* (symlinks resolved), the canonical base is stripped off the canonical
\* file, and the rest is joined to the destination.
construct_destination_path(dir, path) ==
    LET e == FileEntry(dir, path)
    IN  IF e.inside
        THEN [ok |-> TRUE, rel |-> e.canonical]
        ELSE [ok |-> FALSE, rel |-> ""]

\* The destination directory both steps start with: created when missing.
EnsureDestination(d) == IF d.kind = "missing" THEN DestDir(EmptyTree) ELSE d

RECURSIVE copy_each(_, _, _)
\* The for_each of copy_files: every step is unwrapped. create_dir_all of
\* the parent fails when a file is in its place.
copy_each(list, dir, tree) ==
    IF list = <<>> THEN [status |-> "ok", tree |-> tree]
    ELSE LET to == construct_destination_path(dir, Head(list))
         IN  IF ~to.ok THEN [status |-> "panic", tree |-> tree]
             ELSE IF Parent(to.rel) # "" /\ HasFile(tree, Parent(to.rel))
             THEN [status |-> "panic", tree |-> tree]
             ELSE copy_each(Tail(list), dir,
                            Write(tree, to.rel, FileEntry(dir, Head(list)).content))

\* Generator::copy_files.
copy_files(generator, dir, d) ==
    IF ~generator.files.some THEN [status |-> "ok", dest |-> d]
    ELSE LET made == EnsureDestination(d)
         IN  IF made.kind # "dir" THEN [status |-> "err", dest |-> made]
             ELSE LET c == copy_each(generator.files.list, dir, made.tree)
                  IN  [status |-> c.status, dest |-> DestDir(c.tree)]

\* Path::extension of a file name: none without a dot or with its only dot
\* in front, else what follows the last dot.
extension(name) ==
    LET dots == {i \in 1..Len(name) : name[i] = "."}
        last == CHOOSE i \in dots : \A j \in dots : j <= i
    IN  IF dots = {} \/ last = 1
        THEN [some |-> FALSE, ext |-> <<>>]
        ELSE [some |-> TRUE, ext |-> SubSeq(name, last + 1, Len(name))]

is_file(name) == name \notin DirNames

\* The renderer (rrgen) is external: an invocation is recorded, and fails
\* on a template it cannot render.
RendererFails(name) == name = BrokenTpl

RECURSIVE render_each(_, _, _)
\* The filter and for_each of generate_templates over the sorted templates:
\* extension().unwrap() panics on an underscore name with no extension, and
\* rrgen.generate(..).unwrap() on a renderer error.
render_each(list, values, calls) ==
    IF list = <<>> THEN [status |-> "ok", calls |-> calls]
    ELSE LET template == Head(list)
             call == [template |-> template, context |-> values]
         IN  IF ~is_file(template) THEN render_each(Tail(list), values, calls)
             ELSE IF starts_with(template, "_") /\ ~extension(template).some
             THEN [status |-> "panic", calls |-> calls]
             ELSE IF starts_with(template, "_") /\ extension(template).ext = <<"tpl">>
             THEN render_each(Tail(list), values, calls)
             ELSE IF RendererFails(template)
             THEN [status |-> "panic", calls |-> Append(calls, call)]
             ELSE render_each(Tail(list), values, Append(calls, call))

SeqRange(list) == {list[i] : i \in DOMAIN list}

\* templates.sort().
Sorted(list) == SortedBy(SeqRange(list), [n \in SeqRange(list) |-> Rank(n)])

\* Generator::generate_templates.
generate_templates(generator, d, values) ==
    IF generator.templates = <<>>
    THEN [status |-> "ok", dest |-> d, calls |-> <<>>]
    ELSE LET made == EnsureDestination(d)
         IN  IF made.kind # "dir"
             THEN [status |-> "err", dest |-> made, calls |-> <<>>]
             ELSE LET r == render_each(Sorted(generator.templates), values, <<>>)
                  IN  [status |-> r.status, dest |-> made, calls |-> r.calls]

(***************************************************************************)
(* The package directories loaded in the model.                            *)
(***************************************************************************)
PkgDir(path, manifest, values, templates, files, dependencies) ==
    [path |-> path, manifest |-> manifest, values |-> values,
     license |-> NoFile, readme |-> File("readme"), schema |-> File(SchemaEmpty),
     templates |-> templates, files |-> files, dependencies |-> dependencies]

EmptyPkgDir == PkgDir("", NoFile, NoFile, NoDir, NoDir, NoDir)

\* An entry of files/: its path relative to files/, the canonical location
\* it resolves to (itself for a regular file, the target for a symlink) and
\* the content read through it.
Regular(path, content) ==
    [path |-> path, inside |-> TRUE, canonical |-> path, content |-> content]
Symlink(path, inside, target, content) ==
    [path |-> path, inside |-> inside, canonical |-> target, content |-> content]

FLogo == Regular("logo.png", "png")
FCss == Regular("css/site.css", "css")
FLinkCss == Symlink("a.css", TRUE, "css/site.css", "css")
FLinkOut == Symlink("z.png", FALSE, "/srv/z.png", "zpng")

DepGood == PkgDir("pkg/dependencies/good", File(MApi1), File(ValuesEmpty),
                  Dir({IndexTpl, MacrosTpl}), NoDir, NoDir)
DepNoManifest == PkgDir("pkg/dependencies/broken", NoFile, File(ValuesEmpty),
                        Dir({IndexTpl}), NoDir, NoDir)

\* More entries of dependencies/: a package without values.yaml, a package
\* with dependencies of its own, and a regular file.
DepNoValues == PkgDir("pkg/dependencies/novalues", File(MApi1), NoFile,
                      Dir({IndexTpl}), NoDir, NoDir)
DepLeaf == PkgDir("pkg/dependencies/nested/dependencies/leaf", File(MWeb2),
                  File(ValuesPort), Dir({PageTpl}), NoDir, NoDir)
DepLeafNoTemplates ==
    PkgDir("pkg/dependencies/nested/dependencies/bare", File(MWeb2),
           File(ValuesEmpty), NoDir, NoDir, NoDir)
DepNested == PkgDir("pkg/dependencies/nested", File(MWeb2), File(ValuesEmpty),
                    Dir({IndexTpl}), NoDir, Dir({DepLeaf, DepLeafNoTemplates}))
DepFile == PkgDir("pkg/dependencies/notes.txt", NoFile, NoFile, NoDir, NoDir, NoDir)
DepSolo == PkgDir("pkg/dependencies/solo", File(MApi1), File(ValuesPort),
                  Dir({PageTpl}), NoDir, NoDir)

LoadManifests == {NoFile, File(MWeb1), File(MNoVersion), File(MGarbage)}
LoadValues == {NoFile, File(ValuesEmpty), File(ValuesPort), File(ValuesGarbage)}
LoadTemplates ==
    {NoDir, NotADir, Dir({}), Dir({IndexTpl}), Dir({IndexTpl, MacrosTpl}),
     Dir({PageTpl, IndexTpl, PartialsDir})}
LoadFiles == {NoDir, Dir({}), Dir({FLogo, FCss})}
LoadDependencies ==
    { NoDir, NotADir, Dir({}), Dir({DepGood, DepNoManifest}),
      Dir({DepNoValues, DepFile}), Dir({DepSolo, DepNoManifest, DepNested}) }

LoadPkgDirs ==
    {PkgDir("pkg", m, v, t, f, d) :
       m \in LoadManifests, v \in LoadValues, t \in LoadTemplates,
       f \in LoadFiles, d \in LoadDependencies}

(***************************************************************************)
(* The generate path (main, Commands::Generate).                           *)
(***************************************************************************)
None == [some |-> FALSE, v |-> ""]
Some(x) == [some |-> TRUE, v |-> x]
NoUri == [some |-> FALSE, v |-> <<>>]

FileAt(tree, path) ==
    IF HasFile(tree, path) THEN File(ContentAt(tree, path)) ELSE NoFile

\* A store entry (a tree of files) as the directory the loader reads.
TreeDir(path, entry) ==
    [path |-> path,
     manifest |-> FileAt(entry.tree, ManifestFile),
     values |-> FileAt(entry.tree, "values.yaml"),
     license |-> FileAt(entry.tree, "LICENSE"),
     readme |-> FileAt(entry.tree, "README.md"),
     schema |-> FileAt(entry.tree, "schema.json"),
     templates |-> IF HasFile(entry.tree, "templates/index.tpl")
                   THEN Dir({IndexTpl}) ELSE NoDir,
     files |-> IF HasFile(entry.tree, "files/logo.png")
               THEN Dir({Regular("logo.png", ContentAt(entry.tree, "files/logo.png"))})
               ELSE NoDir,
     dependencies |-> NoDir]

\* The match that picks the generator's path: name and version select the
\* store entry, else --generator-path the given directory, else --uri
\* installs the source and yields PathBuf::new() (the empty path), else the
\* command fails.
SelectPath(c, st, env) ==
    IF c.name.some /\ c.version.some
    THEN [status |-> "ok", from |-> "store", store |-> st,
          dir |-> TreeDir("generators", st[<<c.name.v, c.version.v>>])]
    ELSE IF c.generator_path
    THEN [status |-> "ok", from |-> "path", store |-> st, dir |-> pkgDir]
    ELSE IF c.uri.some
    THEN LET i == install_template(c.uri.v, env, st)
         IN  [status |-> i.status, from |-> "uri", store |-> i.store, dir |-> cwdDir]
    ELSE [status |-> "err", from |-> "none", store |-> st, dir |-> cwdDir]

Outcome(status, stage, ctx, from, generator, st, d, calls) ==
    [status |-> status, stage |-> stage, ctx |-> ctx, from |-> from,
     generator |-> generator, store |-> st, dest |-> d, calls |-> calls]

\* The outcomes of a run of generate: the context, the path, the load, the
\* copy of the static files, the render of the templates. A step that fails
\* ends the run, with what was written until then left in place.
GenerateRun(c, st, env, d) ==
    LET built == BuildContext(c.configGiven, c.configFile, c.output)
        sel == SelectPath(c, st, env)
    IN  IF built.status # "ok"
        THEN {Outcome(built.status, built.stage, built.ctx, "", NoGenerator, st, d, <<>>)}
        ELSE IF sel.status # "ok"
        THEN {Outcome(sel.status, "select", built.ctx, sel.from, NoGenerator,
                      sel.store, d, <<>>)}
        ELSE {IF l.status # "ok"
              THEN Outcome("err", "load", built.ctx, sel.from, NoGenerator,
                           sel.store, d, <<>>)
              ELSE LET copied == copy_files(l.generator, sel.dir, d)
                       gen == generate_templates(l.generator, copied.dest, built.ctx)
                   IN  IF copied.status # "ok"
                       THEN Outcome(copied.status, "copy", built.ctx, sel.from,
                                    l.generator, sel.store, copied.dest, <<>>)
                       ELSE Outcome(gen.status,
                                    IF gen.status = "ok" THEN "done" ELSE "render",
                                    built.ctx, sel.from, l.generator, sel.store,
                                    gen.dest, gen.calls) :
                l \in from_directory(sel.dir)}

Idle == Outcome("idle", "", JNull, "", NoGenerator, [k \in Keys |-> NoEntry],
                NoDest, <<>>)

Generate ==
    /\ genOut.status = "idle"
    /\ \E out \in GenerateRun(cli, store, sourceEnv, dest) :
         /\ genOut' = out
         /\ store' = out.store
         /\ dest' = out.dest
         /\ rendered' = out.calls
    /\ UNCHANGED <<sourceEnv, installLog, loadVars, cwdDir, cli>>

Cli(name, version, generator_path, uri, configGiven, configFile, output) ==
    [name |-> name, version |-> version, generator_path |-> generator_path,
     uri |-> uri, configGiven |-> configGiven, configFile |-> configFile,
     output |-> output]

NoCli == Cli(None, None, FALSE, NoUri, FALSE, NoJsonFile, ".")

NoSourceEnv == [localDir |-> FALSE, content |-> EmptyTree, remoteOk |-> FALSE]

\* Variables a specification does not use.
NoInstall ==
    /\ store = [k \in Keys |-> NoEntry]
    /\ sourceEnv = NoSourceEnv
    /\ installLog = <<>>

NoGenerate ==
    /\ cwdDir = EmptyPkgDir
    /\ dest = NoDest
    /\ cli = NoCli
    /\ genOut = Idle
    /\ rendered = <<>>

\* Configs: the entities mapping takes every assignment of these values to
\* at most two keys.
EntityValues ==
    { Ref("b.json"), Ref("nested.json"), Ref("of.json"), Ref("bad.json"),
      Ref("missing.json"),
      JObj("$ref" :> JStr("b.json") @@ "extra" :> JNum("1")),
      JObj("$ref" :> JNum("7")),
      JObj("x" :> JNum("1")),
      JStr("scalar") }

EntityMaps ==
    UNION {[ks -> EntityValues] : ks \in SUBSET {"a", "b"}}

ConfigDocs ==
    {JObj("entities" :> JObj(m)) : m \in EntityMaps}
    \cup {JObj("entities" :> JObj(m) @@ "outputFolder" :> JStr("/evil")) :
            m \in EntityMaps}
    \cup {JObj(NoMembers), JStr("scalar"), JObj("entities" :> JStr("scalar"))}

ConfigFiles == {JsonFile(doc) : doc \in ConfigDocs} \cup {NoJsonFile, BadJsonFile}

Outputs == {".", "out"}

\* A package that loads and has a template to render and a partial.
SitePkg == PkgDir("pkg", File(MWeb1), File(ValuesEmpty),
                  Dir({IndexTpl, MacrosTpl}), Dir({FLogo}), NoDir)

InitConfig ==
    /\ NoInstall
    /\ pkgDir = SitePkg
    /\ loadLog = <<>>
    /\ cwdDir = EmptyPkgDir
    /\ dest = NoDest
    /\ cli \in {Cli(None, None, TRUE, NoUri, TRUE, f, o) :
                  f \in ConfigFiles, o \in Outputs}
               \cup {Cli(None, None, TRUE, NoUri, FALSE, NoJsonFile, o) : o \in Outputs}
    /\ genOut = Idle
    /\ rendered = <<>>

NextGenerate == Generate

SpecConfig == InitConfig /\ [][NextGenerate]_vars

\* Packages to render: every pairing of these templates/ and files/.
RenderTemplates ==
    { Dir({}), Dir({IndexTpl}), Dir({MacrosTpl}), Dir({IndexTpl, MacrosTpl}),
      Dir({PageTpl, IndexTpl, PartialsDir}), Dir({DraftTxt, IndexTpl}),
      Dir({NotesNoExt, PageTpl}), Dir({ReadmeNoExt, PageTpl}),
      Dir({BrokenTpl, IndexTpl}) }

RenderFiles ==
    { NoDir, Dir({}), Dir({FLogo}), Dir({FLogo, FCss}), Dir({FCss, FLinkCss}),
      Dir({FLogo, FLinkOut}) }

RenderPkgDirs ==
    {PkgDir("pkg", File(MWeb1), File(ValuesEmpty), t, f, NoDir) :
       t \in RenderTemplates, f \in RenderFiles}

Dests ==
    { NoDest, DestFile, DestDir(EmptyTree), DestDir({<<"logo.png", "old">>}),
      DestDir({<<"css", "a file">>}) }

TitleConfig == JsonFile(JObj("entities" :> JObj(NoMembers) @@ "title" :> JStr("Hi")))

InitRender ==
    /\ NoInstall
    /\ pkgDir \in RenderPkgDirs
    /\ loadLog = <<>>
    /\ cwdDir = EmptyPkgDir
    /\ dest \in Dests
    /\ cli = Cli(None, None, TRUE, NoUri, TRUE, TitleConfig, "out")
    /\ genOut = Idle
    /\ rendered = <<>>

SpecRender == InitRender /\ [][NextGenerate]_vars

(***************************************************************************)
(* Loads of a package directory.                                           *)
(***************************************************************************)
\* A load of the package directory (Generator::from_directory(path)).
Load ==
    /\ Len(loadLog) < MaxLoads
    /\ \E r \in from_directory(pkgDir) : loadLog' = Append(loadLog, r)
    /\ UNCHANGED <<pkgDir, installVars, generateVars>>

InitLoad ==
    /\ pkgDir \in LoadPkgDirs
    /\ loadLog = <<>>
    /\ NoInstall
    /\ NoGenerate

NextLoad == Load

SpecLoad == InitLoad /\ [][NextLoad]_vars

(***************************************************************************)
(* The install path.                                                       *)
(***************************************************************************)
LogEntry(route, uri, env, before, r) ==
    [route |-> route, uri |-> uri, env |-> env, before |-> before,
     after |-> r.store, status |-> r.status, source |-> r.source]

\* main, Commands::Install: install_template(..) is called without .await,
\* its future is dropped and the command returns Ok(()).
InstallCommand ==
    /\ Len(installLog) < MaxInstalls
    /\ \E uri \in Uris :
         LET env == sourceEnv
             ran == install_template(uri, env, store)
             r == Unpolled([status |-> "ok", store |-> store,
                            source |-> [status |-> "ok", temp |-> FALSE,
                                        staged |-> EmptyTree, transfers |-> <<>>,
                                        error |-> ""]],
                           ran)
         IN  /\ store' = r.store
             /\ installLog' = Append(installLog, LogEntry("install", uri, env, store, r))
             /\ UNCHANGED <<sourceEnv, loadVars, generateVars>>

\* install_template awaited (main, Commands::Generate with --uri).
InstallTemplate ==
    /\ Len(installLog) < MaxInstalls
    /\ \E uri \in Uris :
         LET env == sourceEnv
             r == install_template(uri, env, store)
         IN  /\ store' = r.store
             /\ installLog' = Append(installLog, LogEntry("uri", uri, env, store, r))
             /\ UNCHANGED <<sourceEnv, loadVars, generateVars>>

InitStores ==
    { [k \in Keys |-> IF k = <<"web", "1.0">> THEN a
                      ELSE IF k = <<"web", "2.0">> THEN b
                      ELSE NoEntry] :
        a \in {NoEntry, Entry(TreeOf(MWeb1, "t1"))},
        b \in {NoEntry, Entry(TreeOf(MWeb2, "old"))} }

InitInstall ==
    /\ store \in InitStores
    /\ sourceEnv \in SourceEnvs
    /\ installLog = <<>>
    /\ pkgDir = EmptyPkgDir
    /\ loadLog = <<>>
    /\ NoGenerate

NextInstall == InstallCommand \/ InstallTemplate

SpecInstall == InitInstall /\ [][NextInstall]_vars

(***************************************************************************)
(* Generate with each of its selectors.                                    *)
(***************************************************************************)
\* A package in the working directory that is none of the sources'.
CwdPkg == PkgDir("", File(MApi1), File(ValuesPort), Dir({PageTpl}), NoDir, NoDir)

SelectUris ==
    { <<"/home/u/pkg">>,
      <<"https://github.com", "/o/gen">>,
      <<"https://github.com", "/o/gen/archive/main", ".zip">>,
      <<"git@gitlab.com:o/gen.git">> }

\* The selectors of generate: name and version, a name alone, a path, a
\* source identifier, or none.
SelectClis ==
    {Cli(Some(n), Some(v), FALSE, NoUri, FALSE, NoJsonFile, "out") :
       n \in Names, v \in Versions}
    \cup {Cli(Some(n), None, FALSE, NoUri, FALSE, NoJsonFile, "out") : n \in Names}
    \cup {Cli(None, None, TRUE, NoUri, FALSE, NoJsonFile, "out")}
    \cup {Cli(None, None, FALSE, [some |-> TRUE, v |-> u], FALSE, NoJsonFile, "out") :
            u \in SelectUris}
    \cup {NoCli}

InitSelect ==
    /\ store \in InitStores
    /\ sourceEnv \in SourceEnvs
    /\ installLog = <<>>
    /\ pkgDir \in {SitePkg, EmptyPkgDir}
    /\ loadLog = <<>>
    /\ cwdDir \in {EmptyPkgDir, CwdPkg, TreeDir("", Entry(sourceEnv.content))}
    /\ dest \in {NoDest, DestDir({<<"logo.png", "old">>})}
    /\ cli \in SelectClis
    /\ genOut = Idle
    /\ rendered = <<>>

SpecSelect == InitSelect /\ [][NextGenerate]_vars

(***************************************************************************)
(* Claims about the install path, checked under SpecInstall.               *)
(***************************************************************************)
Installs == 1..Len(installLog)

ManifestOf(tree) ==
    IF HasFile(tree, ManifestFile)
    THEN GeneratorYaml(ContentAt(tree, ManifestFile))
    ELSE [ok |-> FALSE, name |-> "", version |-> ""]

\* C1: an install of a staged package whose manifest parses to (name,
\* version), with no root/name/version in the store yet, that reports
\* success leaves that directory existing and holding every file of the
\* staged tree at its relative path, and writes nowhere else in the store.
C1_InstallCopiesStagedTree ==
    \A i \in Installs :
        LET e == installLog[i]
            m == ManifestOf(e.env.content)
            key == <<m.name, m.version>>
        IN  (e.env.localDir /\ m.ok /\ ~e.before[key].exists /\ e.status = "ok")
            => /\ e.after[key].exists
               /\ e.env.content \subseteq e.after[key].tree
               /\ \A k \in Keys \ {key} : e.after[k] = e.before[k]

\* C2: install is idempotent and non-overwriting: an install never modifies
\* a store entry that already exists, and installing the same staged
\* package a second time leaves the store as the first install left it and
\* reports success as the first did.
C2_InstallIdempotentNonOverwriting ==
    /\ \A i \in Installs :
          \A k \in Keys :
              installLog[i].before[k].exists
              => installLog[i].after[k] = installLog[i].before[k]
    /\ \A i \in Installs :
          (/\ i + 1 \in Installs
           /\ installLog[i + 1].uri = installLog[i].uri
           /\ installLog[i + 1].route = installLog[i].route)
          => /\ installLog[i + 1].after = installLog[i].after
             /\ installLog[i].status = "ok" => installLog[i + 1].status = "ok"

\* C2 witness: the same local package is installed twice by an install that
\* runs, over a store entry of its (name, version) whose contents differ.
C2_Witness ==
    \E i \in Installs :
        LET e == installLog[i]
            m == ManifestOf(e.env.content)
            key == <<m.name, m.version>>
        IN  /\ i + 1 \in Installs
            /\ installLog[i + 1].uri = e.uri
            /\ installLog[i + 1].route = "uri"
            /\ e.route = "uri"
            /\ e.env.localDir
            /\ m.ok
            /\ e.before[key].exists
            /\ e.before[key].tree # e.env.content
            /\ e.status = "ok"
            /\ installLog[i + 1].status = "ok"

\* C9: source classification: an existing local directory is returned as it
\* is with no staging; otherwise an archive suffix means download and decode
\* into a fresh temporary directory; otherwise the hosted-repository prefix
\* means a clone into a fresh temporary directory; anything else fails as
\* unsupported with no transfer attempted.
C9_SourceClassification ==
    \A i \in Installs :
        LET e == installLog[i]
            s == e.source
        IN  e.route = "uri" =>
              IF e.env.localDir
              THEN s.status = "ok" /\ ~s.temp /\ s.transfers = <<>>
                   /\ s.staged = e.env.content
              ELSE IF IsArchive(e.uri)
              THEN s.temp /\ s.transfers = <<"download", "extract">>
              ELSE IF starts_with(e.uri, GithubPrefix)
              THEN s.temp /\ s.transfers = <<"clone">>
              ELSE s.status = "err" /\ s.transfers = <<>>

(***************************************************************************)
(* Claims about the package loader, checked under SpecLoad.                *)
(***************************************************************************)
Loads == 1..Len(loadLog)

\* C3: a load fails exactly when the manifest is missing or cannot be
\* deserialized, or the templates directory is missing; a directory with a
\* valid manifest and a templates directory but no values file loads, with
\* values the empty mapping.
C3_LoadFailsExactlyWhen ==
    \A i \in Loads :
        LET failing == \/ ~pkgDir.manifest.present
                       \/ ~GeneratorYaml(pkgDir.manifest.content).ok
                       \/ pkgDir.templates.kind # "dir"
        IN  /\ loadLog[i].status = "err" <=> failing
            /\ (~failing /\ ~pkgDir.values.present)
               => loadLog[i].generator.values = {}

\* C10: two loads of the same unchanged directory yield the same files and
\* the same templates sequences, whatever order the filesystem enumerates
\* the directory entries in.
C10_LoadDeterminism ==
    \A i, j \in Loads :
        (loadLog[i].status = "ok" /\ loadLog[j].status = "ok")
        => /\ loadLog[i].generator.files = loadLog[j].generator.files
           /\ loadLog[i].generator.templates = loadLog[j].generator.templates

\* The load rules applied to a directory entry: it loads when from_directory
\* has a successful result for it.
Loadable(d) == \E r \in from_directory(d) : r.status = "ok"

\* The package directory without its dependencies/ directory.
WithoutDependencies == [pkgDir EXCEPT !.dependencies = NoDir]

\* g is a result of loading directory d by the load rules.
LoadedFrom(g, d) == [status |-> "ok", kind |-> "", generator |-> g] \in from_directory(d)

\* C11: dependency loading is failure-isolated: the parent load succeeds or
\* fails as it would without dependencies/; when dependencies/ is a
\* directory, the parent's dependencies are exactly its entries that load
\* by the same rules, each once and as loaded by those rules, and an entry
\* whose load fails is left out; when dependencies/ is absent the parent
\* loads with no dependencies.
C11_DependencyIsolation ==
    \A i \in Loads :
        LET r == loadLog[i]
            deps == r.generator.dependencies
            entries == pkgDir.dependencies.entries
        IN  /\ r.status = "ok" <=> Loadable(WithoutDependencies)
            /\ r.status = "ok" =>
                 IF pkgDir.dependencies.kind # "dir"
                 THEN ~deps.some /\ deps.list = <<>>
                 ELSE /\ deps.some
                      /\ Len(deps.list) = Cardinality({d \in entries : Loadable(d)})
                      /\ \A d \in entries :
                            Loadable(d) =>
                              \E j \in DOMAIN deps.list :
                                  /\ deps.list[j].base_path = d.path
                                  /\ LoadedFrom(deps.list[j], d)
                      /\ \A j \in DOMAIN deps.list :
                            \E d \in entries :
                                Loadable(d) /\ deps.list[j].base_path = d.path

\* C11 witness: a parent loaded with a dependencies/ directory holding an
\* entry that fails to load and two that load, one of them with a dependency
\* of its own beside a failing one.
C11_Witness ==
    \E i \in Loads :
        /\ loadLog[i].status = "ok"
        /\ pkgDir.dependencies = Dir({DepSolo, DepNoManifest, DepNested})
        /\ Len(loadLog[i].generator.dependencies.list) = 2
        /\ \E j \in 1..2 :
              LET g == loadLog[i].generator.dependencies.list[j]
              IN  /\ g.base_path = DepNested.path
                  /\ g.dependencies.some
                  /\ Len(g.dependencies.list) = 1
                  /\ g.dependencies.list[1].base_path = DepLeaf.path

(***************************************************************************)
(* Claims about the config resolver, checked under SpecConfig.             *)
(***************************************************************************)
\* The entities of the config file, and of the context after generate.
EntitiesIn == cli.configFile.json.o["entities"].o
EntitiesOut == genOut.ctx.o["entities"].o

\* generate ran with a config file and dereference_config returned.
Dereferenced ==
    /\ genOut.status # "idle"
    /\ cli.configGiven
    /\ genOut.stage \notin {"config", "dereference"}

\* The referenced file of a single-key {"$ref": <string>} object.
Target(e) == RefFile(e.o["$ref"].s)

SingleRef(e) == IsObject(e) /\ DOMAIN e.o = {"$ref"} /\ e.o["$ref"].t = "string"

\* C4: dereferencing is a narrow, single-level replacement: an entity that
\* is exactly {"$ref": <string>} naming an existing, parseable file becomes
\* that file's document as it is (a $ref inside it stays unresolved); an
\* entity with further keys beside $ref, or a $ref that is no string, is
\* left exactly as it was.
C4_DereferenceSingleLevel ==
    Dereferenced =>
      /\ DOMAIN EntitiesOut = DOMAIN EntitiesIn
      /\ \A k \in DOMAIN EntitiesIn :
           LET e == EntitiesIn[k]
           IN  /\ (SingleRef(e) /\ Target(e).present /\ Target(e).valid)
                  => EntitiesOut[k] = Target(e).json
               /\ (/\ IsObject(e)
                   /\ "$ref" \in DOMAIN e.o
                   /\ (DOMAIN e.o # {"$ref"} \/ e.o["$ref"].t # "string"))
                  => EntitiesOut[k] = e

\* C4 witness: a reference to a document that is itself a $ref object was
\* replaced by that document, beside an entity with a key next to $ref.
C4_Witness ==
    /\ Dereferenced
    /\ genOut.status = "ok"
    /\ DOMAIN EntitiesIn = {"a", "b"}
    /\ EntitiesIn["a"] = Ref("nested.json")
    /\ EntitiesOut["a"] = Ref("b.json")
    /\ EntitiesIn["b"] = JObj("$ref" :> JStr("b.json") @@ "extra" :> JNum("1"))

\* The config file holds an object whose entities are all objects.
WellShapedConfig ==
    /\ cli.configGiven
    /\ cli.configFile.present
    /\ cli.configFile.valid
    /\ HasKey(cli.configFile.json, "entities")
    /\ IsObject(cli.configFile.json.o["entities"])
    /\ \A k \in DOMAIN EntitiesIn : IsObject(EntitiesIn[k])

\* C5: a reference that cannot be resolved (its file does not exist or does
\* not load as JSON) leaves that entity as its $ref object, every other
\* entity is dereferenced as usual, and the resolve completes.
C5_FailureIsolation ==
    (genOut.status # "idle" /\ WellShapedConfig) =>
      /\ genOut.stage # "dereference"
      /\ \A k \in DOMAIN EntitiesIn :
           LET e == EntitiesIn[k]
           IN  SingleRef(e) =>
                 EntitiesOut[k] = IF Target(e).present /\ Target(e).valid
                                  THEN Target(e).json
                                  ELSE e

\* C6: every context handed to the renderer has, at its top level,
\* outputFolder equal to the destination path, whatever the config and the
\* referenced documents hold.
C6_OutputFolderInjected ==
    \A i \in DOMAIN rendered :
        /\ HasKey(rendered[i].context, "outputFolder")
        /\ rendered[i].context.o["outputFolder"] = JStr(cli.output)

\* C6 witness: the renderer was invoked for a config that has its own
\* top-level outputFolder and a reference to a document holding one.
C6_Witness ==
    /\ rendered # <<>>
    /\ Dereferenced
    /\ HasKey(cli.configFile.json, "outputFolder")
    /\ cli.configFile.json.o["outputFolder"] # JStr(cli.output)
    /\ \E k \in DOMAIN EntitiesIn :
         EntitiesIn[k] = Ref("of.json") /\ HasKey(EntitiesOut[k], "outputFolder")

(***************************************************************************)
(* Claims about the render orchestrator, checked under SpecRender.         *)
(***************************************************************************)
\* A partial: the file name starts with an underscore and the extension is
\* tpl.
IsPartial(name) ==
    /\ starts_with(name, "_")
    /\ extension(name).some
    /\ extension(name).ext = <<"tpl">>

TemplateFiles == {n \in pkgDir.templates.entries : is_file(n)}

Dispatched == [i \in DOMAIN rendered |-> rendered[i].template]

\* generate reached the render of the templates with a usable destination.
RenderReached ==
    /\ genOut.stage \in {"done", "render"}
    /\ genOut.dest.kind = "dir"

\* C7: for a package with templates, the renderer invocations are exactly
\* the template files in ascending path order without the partials, each
\* once and with the resolved context; only an underscore-prefixed name
\* with extension tpl is a partial. (Stated for a renderer that does not
\* fail.)
C7_TemplateDispatch ==
    (/\ RenderReached
     /\ pkgDir.templates.entries # {}
     /\ \A n \in TemplateFiles : ~RendererFails(n))
    => /\ Dispatched =
            SortedBy({n \in TemplateFiles : ~IsPartial(n)},
                     [n \in TemplateFiles |-> Rank(n)])
       /\ \A i \in DOMAIN rendered : rendered[i].context = genOut.ctx

\* C8: when package.files is present and the render reports success, every
\* listed file is under the destination at its path relative to files/ with
\* its content; and a render in which the copy of a file fails does not
\* report success.
C8_StaticFileCopy ==
    (genOut.stage \in {"done", "render", "copy"} /\ genOut.generator.files.some)
    => /\ genOut.status = "ok"
          => \A i \in DOMAIN genOut.generator.files.list :
                LET e == FileEntry(pkgDir, genOut.generator.files.list[i])
                IN  <<e.path, e.content>> \in dest.tree
       /\ (\E e \in pkgDir.files.entries : ~e.inside) => genOut.status # "ok"

\* C12: the render of a package whose templates are empty is a successful
\* no-op: the run of generate reports success, invokes no renderer and leaves
\* the destination as it was, whatever files/ of the package holds and
\* whatever is at the destination path.
C12_EmptyTemplatesNoOp ==
    [][(/\ pkgDir.templates = Dir({})
        /\ genOut.status = "idle"
        /\ genOut'.status # "idle")
       => (/\ genOut'.status = "ok"
           /\ genOut'.generator.templates = <<>>
           /\ rendered' = <<>>
           /\ dest' = dest)]_vars

(***************************************************************************)
(* Claims about the selectors of generate, checked under SpecSelect.       *)
(***************************************************************************)
\* Two loaded packages are the same but for the path they were read at.
SamePackage(g, h) == [g EXCEPT !.base_path = ""] = [h EXCEPT !.base_path = ""]

\* The run of generate loaded and rendered the package of directory d: the
\* load of d was the step that failed when d does not load, and else the
\* package passed on to the copy and the render is a load of d.
LoadedAndRendered(d) ==
    IF Loadable(d)
    THEN /\ genOut.stage \in {"copy", "render", "done"}
         /\ \E l \in from_directory(d) :
               l.status = "ok" /\ SamePackage(genOut.generator, l.generator)
    ELSE genOut.status # "ok" /\ genOut.generator = NoGenerator

\* The source that --uri names, as fetched.
Fetched == prepare_generator_source(cli.uri.v, sourceEnv)

\* C13: generate loads and renders the package its selector names: with
\* --name and --version the store entry root/generators/name/version, with
\* --generator-path the given directory, with --uri the package fetched from
\* the source; with no selector it fails before any load or render.
C13_SelectorChoosesPackage ==
    genOut.status # "idle" =>
      IF cli.name.some /\ cli.version.some
      THEN LoadedAndRendered(TreeDir("generators", store[<<cli.name.v, cli.version.v>>]))
      ELSE IF cli.generator_path
      THEN LoadedAndRendered(pkgDir)
      ELSE IF cli.uri.some
      THEN Fetched.status = "ok"
           => LoadedAndRendered(TreeDir("fetched", Entry(Fetched.staged)))
      ELSE IF ~cli.name.some /\ ~cli.version.some
      THEN /\ genOut.status = "err"
           /\ genOut.stage = "select"
           /\ genOut.generator = NoGenerator
           /\ rendered = <<>>
      ELSE TRUE

====
